---- MODULE Spec2Model ----
(***************************************************************************)
(* The tag-length-value encode/decode engine of relay_code:                *)
(*   src/src/serde.rs  Field, FieldType, serialize, write_len, FieldReader *)
(*   src/src/main.rs   Entity, Entity::serialize, Entity::deserialize      *)
(*                                                                         *)
(* Bytes are integers 0..255; a byte buffer (Vec<u8>, &[u8]) is a          *)
(* sequence of bytes.  A Rust String / &str is the sequence of its UTF-8   *)
(* bytes, so str::as_bytes is the representation itself and                *)
(* std::str::from_utf8 is a validity check on a byte sequence.  A u128 is  *)
(* a sequence of 8 limbs of 16 bits, most significant first (TLC's         *)
(* integers are 32 bits wide).                                             *)
(*                                                                         *)
(* session.rs, actions.rs and error.rs are not in the source tree.  From   *)
(* the specification: a Session is a composite of one Entity field, an     *)
(* Action a composite of its ActionKind, and ActionKind a closed           *)
(* enumeration with discriminants 0 .. NumActionKinds - 1.                 *)
(***************************************************************************)
EXTENDS Integers, Sequences, FiniteSets, TLC

VARIABLES
    value,   \* the in-memory Field handed to the encoder (NoField: none)
    buf,     \* the Vec<u8> the encoder appends to / the stored bytes
    form,    \* how buf was made: "record", "payload", "stored" ("none": not yet)
    cut,     \* FieldReader::new was given the first cut bytes of buf
    buffer,  \* FieldReader.buffer: the bytes not yet consumed
    last,    \* the last call made on the reader and what it returned
    phase    \* "init", "encoded", "reading", "failed", "panicked"

vars == <<value, buf, form, cut, buffer, last, phase>>

----------------------------------------------------------------------------
(* Bounds of the model. *)

MaxNameLen == 2
MaxRawLen == 2
MaxTruncLen == 24
NumActionKinds == 3

(* u16: `len as u16` keeps the value modulo 2^16. *)
U16Modulus == 65536
U16Max == U16Modulus - 1

----------------------------------------------------------------------------
(* Values. *)

Zero128 == <<0, 0, 0, 0, 0, 0, 0, 0>>

(* Entity::new *)
EntityNew(name) == [name |-> name, field_b |-> 0, field_c |-> FALSE]

MkEntity(name, b, c) == [name |-> name, field_b |-> b, field_c |-> c]

(* ActionKind: a closed enumeration; `action_kind as u8` is its discriminant. *)
ActionKindDiscriminants == 0..(NumActionKinds - 1)

(* enum Field: a tagged union.  The slot the tag names holds the value, the *)
(* other slots hold a fixed filler.  Action wraps its kind in slot `kind`,  *)
(* Session wraps its entity in slot `entity`.                               *)
MkField(tag, str, byte, flag, u128, kind, entity) ==
    [tag |-> tag, str |-> str, byte |-> byte, flag |-> flag, u128 |-> u128,
     kind |-> kind, entity |-> entity]

NoField == MkField("None", <<>>, 0, FALSE, Zero128, 0, EntityNew(<<>>))
FStr(s) == [NoField EXCEPT !.tag = "Str", !.str = s]
FU128(n) == [NoField EXCEPT !.tag = "U128", !.u128 = n]
FByte(b) == [NoField EXCEPT !.tag = "Byte", !.byte = b]
FBool(b) == [NoField EXCEPT !.tag = "Bool", !.flag = b]
FAction(k) == [NoField EXCEPT !.tag = "Action", !.kind = k]
FActionKind(k) == [NoField EXCEPT !.tag = "ActionKind", !.kind = k]
FEntity(e) == [NoField EXCEPT !.tag = "Entity", !.entity = e]
FSession(e) == [NoField EXCEPT !.tag = "Session", !.entity = e]

(* enum FieldType, #[repr(u8)], Str = 1 and the rest counting up. *)
FieldTypeAsU8(tag) ==
    CASE tag = "Str" -> 1
      [] tag = "U128" -> 2
      [] tag = "Byte" -> 3
      [] tag = "Bool" -> 4
      [] tag = "Action" -> 5
      [] tag = "ActionKind" -> 6
      [] tag = "Entity" -> 7
      [] tag = "Session" -> 8

(* Result<T>: Ok(value), Err(error), or the call panicked. *)
Ok(v) == [kind |-> "Ok", val |-> v, err |-> "none"]
Err(e) == [kind |-> "Err", val |-> NoField, err |-> e]
Panicked == [kind |-> "Panic", val |-> NoField, err |-> "none"]

----------------------------------------------------------------------------
(* Conversions of the standard library that the code calls. *)

IsCont(b) == b >= 128 /\ b <= 191

RECURSIVE Utf8From(_, _)
Utf8From(s, i) ==
    IF i > Len(s) THEN TRUE
    ELSE LET b == s[i]
             n == Len(s) - i
         IN  IF b < 128 THEN Utf8From(s, i + 1)
             ELSE IF b >= 194 /\ b <= 223
             THEN n >= 1 /\ IsCont(s[i + 1]) /\ Utf8From(s, i + 2)
             ELSE IF b >= 224 /\ b <= 239
             THEN /\ n >= 2
                  /\ IsCont(s[i + 1]) /\ IsCont(s[i + 2])
                  /\ (b = 224 => s[i + 1] >= 160)
                  /\ (b = 237 => s[i + 1] <= 159)
                  /\ Utf8From(s, i + 3)
             ELSE IF b >= 240 /\ b <= 244
             THEN /\ n >= 3
                  /\ IsCont(s[i + 1]) /\ IsCont(s[i + 2]) /\ IsCont(s[i + 3])
                  /\ (b = 240 => s[i + 1] >= 144)
                  /\ (b = 244 => s[i + 1] <= 143)
                  /\ Utf8From(s, i + 4)
             ELSE FALSE

(* std::str::from_utf8(bytes).is_ok() *)
IsUtf8(s) == s \in Seq(0..127) \/ Utf8From(s, 1)

(* u128::to_be_bytes *)
U128ToBeBytes(n) ==
    [i \in 1..16 |-> IF i % 2 = 1 THEN n[(i + 1) \div 2] \div 256
                                  ELSE n[(i + 1) \div 2] % 256]

(* u128::from_be_bytes on a 16-byte array *)
U128FromBeBytes(b) == [j \in 1..8 |-> b[2 * j - 1] * 256 + b[2 * j]]

(* u16::to_be_bytes *)
U16ToBeBytes(n) == <<n \div 256, n % 256>>

(* u16::from_be_bytes *)
U16FromBeBytes(hi, lo) == hi * 256 + lo

(* `b as u8` of a bool *)
BoolAsU8(b) == IF b THEN 1 ELSE 0

----------------------------------------------------------------------------
(* The encoder. *)

(* A slip: the length written low byte first. *)
write_len_le(b, len) ==
    b \o <<(len % U16Modulus) % 256, (len % U16Modulus) \div 256>>

write_len(b, len) == b \o U16ToBeBytes(len % U16Modulus)

(* One wire record: the tag byte, the length written by write_len, the payload. *)
Record(b, tag, payload) ==
    write_len(b \o <<FieldTypeAsU8(tag)>>, Len(payload)) \o payload

RECURSIVE serialize(_, _)

(* A slip: field_c written before field_b. *)
EntitySerialize_swapped(e) ==
    LET b1 == serialize(<<>>, FStr(e.name))
        b2 == serialize(b1, FBool(e.field_c))
    IN  serialize(b2, FByte(e.field_b))

(* impl Serialize for Entity *)
EntitySerialize(e) ==
    LET b1 == serialize(<<>>, FStr(e.name))
        b2 == serialize(b1, FByte(e.field_b))
    IN  serialize(b2, FBool(e.field_c))

(* impl Serialize for Session: the one Entity field. *)
SessionSerialize(e) == serialize(<<>>, FEntity(e))

(* impl Serialize for Action: the one ActionKind field. *)
ActionSerialize(k) == serialize(<<>>, FActionKind(k))

serialize(b, field) ==
    CASE field.tag = "Str" -> Record(b, "Str", field.str)
      [] field.tag = "U128" ->
            write_len(b \o <<FieldTypeAsU8("U128")>>, 16) \o U128ToBeBytes(field.u128)
      [] field.tag = "Byte" ->
            write_len(b \o <<FieldTypeAsU8("Byte")>>, 1) \o <<field.byte>>
      [] field.tag = "Bool" ->
            write_len(b \o <<FieldTypeAsU8("Bool")>>, 1) \o <<BoolAsU8(field.flag)>>
      [] field.tag = "Action" -> Record(b, "Action", ActionSerialize(field.kind))
      [] field.tag = "Entity" -> Record(b, "Entity", EntitySerialize(field.entity))
      [] field.tag = "Session" -> Record(b, "Session", SessionSerialize(field.entity))
      [] field.tag = "ActionKind" ->
            write_len(b \o <<FieldTypeAsU8("ActionKind")>>, 1) \o <<field.kind>>

----------------------------------------------------------------------------
(* The typed conversions: impl_try_from!(T, Field::V).  A requested type T  *)
(* is named by the Field variant it accepts: "Str" is String, "Byte" is u8, *)
(* "Bool" is bool, and so on.  serde.rs instantiates the macro for seven    *)
(* types; the conversion to Session is its eighth, "one mapping per         *)
(* concrete type", outside serde.rs.                                        *)

SerdeRequestTypes ==
    {"U128", "Byte", "Bool", "Str", "Action", "ActionKind", "Entity"}
SessionRequestType == "Session"
RequestTypes == SerdeRequestTypes \cup {SessionRequestType}

(* A slip: the conversion takes whatever variant it is given. *)
TryFrom_any(T, field) == Ok(field)

TryFrom(T, field) ==
    IF field.tag = T THEN Ok(field) ELSE Err("InvalidFieldType")

----------------------------------------------------------------------------
(* FieldReader.  Each operation returns its result and the reader's buffer  *)
(* after the call.                                                          *)

Drop(b, n) == SubSeq(b, n + 1, Len(b))
Take(b, n) == SubSeq(b, 1, n)

FieldTypeOfByte(byte) ==
    CASE byte = 1 -> "Str"
      [] byte = 2 -> "U128"
      [] byte = 3 -> "Byte"
      [] byte = 4 -> "Bool"
      [] byte = 5 -> "Action"
      [] byte = 6 -> "ActionKind"
      [] byte = 7 -> "Entity"
      [] byte = 8 -> "Session"
      [] OTHER -> "None"

(* A slip: an unknown tag byte reported as a missing one. *)
field_type_unknown_as_missing(b) ==
    IF b = <<>> THEN [res |-> Err("MissingFieldType"), buffer |-> b]
    ELSE LET ft == FieldTypeOfByte(b[1])
         IN  [res |-> IF ft = "None" THEN Err("MissingFieldType")
                      ELSE Ok([NoField EXCEPT !.tag = ft]),
              buffer |-> Drop(b, 1)]

(* FieldReader::field_type: res.val.tag is the FieldType read. *)
field_type(b) ==
    IF b = <<>> THEN [res |-> Err("MissingFieldType"), buffer |-> b]
    ELSE LET ft == FieldTypeOfByte(b[1])
         IN  [res |-> IF ft = "None" THEN Err("InvalidFieldType")
                      ELSE Ok([NoField EXCEPT !.tag = ft]),
              buffer |-> Drop(b, 1)]

(* FieldReader::len: n is the length read. *)
len(b) ==
    IF Len(b) < 2 THEN [res |-> Err("MissingFieldLen"), n |-> 0, buffer |-> b]
    ELSE [res |-> Ok(NoField), n |-> U16FromBeBytes(b[1], b[2]), buffer |-> Drop(b, 2)]

(* FieldReader::read_be_u128: split_at panics when the input is shorter than *)
(* 16 bytes; the rest of a longer input is dropped.                          *)
read_be_u128(input) ==
    IF Len(input) < 16 THEN Panicked
    ELSE Ok(FU128(U128FromBeBytes(Take(input, 16))))

(* The outcomes of transmuting a byte that is no ActionKind discriminant     *)
(* (undefined behaviour): the byte kept as it is, some declared variant, or  *)
(* the process stopped.                                                      *)
UBOutcomes ==
    {[how |-> h, k |-> 0] : h \in {"raw", "abort"}}
        \cup {[how |-> "variant", k |-> d] : d \in ActionKindDiscriminants}

(* unsafe { std::mem::transmute(bytes[0]) } *)
TransmuteActionKind(byte, ub) ==
    IF byte \in ActionKindDiscriminants THEN Ok(FActionKind(byte))
    ELSE CASE ub.how = "raw" -> Ok(FActionKind(byte))
           [] ub.how = "variant" -> Ok(FActionKind(ub.k))
           [] ub.how = "abort" -> Panicked

NoInner == [opened |-> FALSE, bytes |-> <<>>]
Inner(bytes) == [opened |-> TRUE, bytes |-> bytes]

RECURSIVE read_field(_, _, _)

(* A slip: field_b read before name. *)
EntityDeserialize_byte_first(b, ub) ==
    LET r1 == read_field(b, "Byte", ub)
    IN  IF r1.res.kind # "Ok" THEN [res |-> r1.res, buffer |-> r1.buffer]
        ELSE LET r2 == read_field(r1.buffer, "Str", ub)
             IN  IF r2.res.kind # "Ok" THEN [res |-> r2.res, buffer |-> r2.buffer]
                 ELSE LET r3 == read_field(r2.buffer, "Bool", ub)
                      IN  IF r3.res.kind # "Ok"
                          THEN [res |-> r3.res, buffer |-> r3.buffer]
                          ELSE [res |-> Ok(FEntity(MkEntity(r2.res.val.str,
                                                            r1.res.val.byte,
                                                            r3.res.val.flag))),
                                buffer |-> r3.buffer]

(* impl Deserialize for Entity *)
EntityDeserialize(b, ub) ==
    LET r1 == read_field(b, "Str", ub)
    IN  IF r1.res.kind # "Ok" THEN [res |-> r1.res, buffer |-> r1.buffer]
        ELSE LET r2 == read_field(r1.buffer, "Byte", ub)
             IN  IF r2.res.kind # "Ok" THEN [res |-> r2.res, buffer |-> r2.buffer]
                 ELSE LET r3 == read_field(r2.buffer, "Bool", ub)
                      IN  IF r3.res.kind # "Ok"
                          THEN [res |-> r3.res, buffer |-> r3.buffer]
                          ELSE [res |-> Ok(FEntity(MkEntity(r1.res.val.str,
                                                            r2.res.val.byte,
                                                            r3.res.val.flag))),
                                buffer |-> r3.buffer]

(* impl Deserialize for Session: the one Entity field. *)
SessionDeserialize(b, ub) ==
    LET r == read_field(b, "Entity", ub)
    IN  IF r.res.kind # "Ok" THEN [res |-> r.res, buffer |-> r.buffer]
        ELSE [res |-> Ok(FSession(r.res.val.entity)), buffer |-> r.buffer]

(* impl Deserialize for Action: the one ActionKind field. *)
ActionDeserialize(b, ub) ==
    LET r == read_field(b, "ActionKind", ub)
    IN  IF r.res.kind # "Ok" THEN [res |-> r.res, buffer |-> r.buffer]
        ELSE [res |-> Ok(FAction(r.res.val.kind)), buffer |-> r.buffer]

(* The match of read_field: the Field the payload stands for under the tag, *)
(* and the slice a nested FieldReader::new was given.                       *)
Interpret(ft, bytes, ub) ==
    CASE ft = "Str" ->
            [res |-> IF IsUtf8(bytes) THEN Ok(FStr(bytes)) ELSE Err("Utf8Error"),
             inner |-> NoInner]
      [] ft = "Bool" ->
            [res |-> IF bytes = <<>> THEN Panicked ELSE Ok(FBool(bytes[1] = 1)),
             inner |-> NoInner]
      [] ft = "Byte" ->
            [res |-> IF bytes = <<>> THEN Panicked ELSE Ok(FByte(bytes[1])),
             inner |-> NoInner]
      [] ft = "Action" ->
            [res |-> ActionDeserialize(bytes, ub).res, inner |-> Inner(bytes)]
      [] ft = "Entity" ->
            [res |-> EntityDeserialize(bytes, ub).res, inner |-> Inner(bytes)]
      [] ft = "Session" ->
            [res |-> SessionDeserialize(bytes, ub).res, inner |-> Inner(bytes)]
      [] ft = "U128" -> [res |-> read_be_u128(bytes), inner |-> NoInner]
      [] ft = "ActionKind" ->
            [res |-> IF bytes = <<>> THEN Panicked
                     ELSE TransmuteActionKind(bytes[1], ub),
             inner |-> NoInner]

(* FieldReader::read_field::<T>.  field is the Field the match built, inner *)
(* the slice a nested reader was opened over, n the length read.            *)
read_field(b, T, ub) ==
    LET ft == field_type(b)
    IN  IF ft.res.kind # "Ok"
        THEN [res |-> ft.res, buffer |-> ft.buffer, field |-> NoField,
              inner |-> NoInner, n |-> 0]
        ELSE
        LET ln == len(ft.buffer)
        IN  IF ln.res.kind # "Ok"
            THEN [res |-> ln.res, buffer |-> ln.buffer, field |-> NoField,
                  inner |-> NoInner, n |-> 0]
            ELSE IF ln.n > Len(ln.buffer)
            THEN [res |-> Panicked, buffer |-> ln.buffer, field |-> NoField,
                  inner |-> NoInner, n |-> ln.n]
            ELSE
            LET bytes == Take(ln.buffer, ln.n)
                rest == Drop(ln.buffer, ln.n)
                f == Interpret(ft.res.val.tag, bytes, ub)
            IN  IF f.res.kind # "Ok"
                THEN [res |-> f.res, buffer |-> rest, field |-> NoField,
                      inner |-> f.inner, n |-> ln.n]
                ELSE [res |-> TryFrom(T, f.res.val), buffer |-> rest,
                      field |-> f.res.val, inner |-> f.inner, n |-> ln.n]

----------------------------------------------------------------------------
(* The inputs. *)

NameBytes == {97, 195, 169}

(* The short names: every valid UTF-8 string over NameBytes. *)
Names ==
    {s \in UNION {[1..n -> NameBytes] : n \in 0..MaxNameLen} : IsUtf8(s)}

(* The long names, around the lengths at which a 16-bit length wraps: that *)
(* of the name's own record, and that of the Session record around it.     *)
LongLens == {U16Max, U16Max + 1}
SessionLongLens == {U16Max - 14, U16Max - 13}
RECURSIVE LongName(_)
LongName(n) ==
    IF n = 0 THEN <<>>
    ELSE IF n % 2 = 1 THEN <<97>> \o LongName(n - 1)
    ELSE LET h == LongName(n \div 2) IN h \o h
LongNames == {LongName(n) : n \in LongLens}

FieldBytes == {0, 7, 255}

SmallEntities ==
    {MkEntity(nm, b, c) : nm \in Names, b \in FieldBytes, c \in BOOLEAN}
LongEntities == {MkEntity(LongName(n), 7, TRUE) : n \in {U16Max, U16Max + 1}}
SessionLongEntities == {MkEntity(LongName(n), 7, TRUE) : n \in SessionLongLens}

(* The entity of the specification's example: "alice", 7, true. *)
Alice == MkEntity(<<97, 108, 105, 99, 101>>, 7, TRUE)

U128Values ==
    {Zero128,
     <<0, 0, 0, 0, 0, 0, 0, 1>>,
     <<258, 772, 1286, 1800, 2314, 2828, 3342, 3856>>,
     [j \in 1..8 |-> U16Max]}

Values ==
    {FStr(s) : s \in Names \cup LongNames}
        \cup {FU128(n) : n \in U128Values}
        \cup {FByte(b) : b \in FieldBytes}
        \cup {FBool(b) : b \in BOOLEAN}
        \cup {FActionKind(k) : k \in ActionKindDiscriminants}
        \cup {FAction(k) : k \in ActionKindDiscriminants}
        \cup {FEntity(e) : e \in SmallEntities \cup LongEntities \cup {Alice}}
        \cup {FSession(e) : e \in SmallEntities \cup SessionLongEntities \cup {Alice}}

(* Stored bytes that no encoder wrote: a tag, a declared length and a        *)
(* payload that is as long as declared, one byte shorter or one byte longer. *)
RawTags == 0..9 \cup {255}
RawBytes == {0, 1, 97, 255}
RawPayloads ==
    UNION {[1..n -> RawBytes] : n \in 0..MaxRawLen}
        \cup {[i \in 1..n |-> i] : n \in {15, 16, 17}}
DeclaredFor(p) == {d \in (Len(p) - 1)..(Len(p) + 1) : d >= 0}
RawRecords ==
    UNION {{<<t>> \o U16ToBeBytes(d) \o p : d \in DeclaredFor(p)} :
              t \in RawTags, p \in RawPayloads}
RawHeaders ==
    {<<>>} \cup {<<t>> : t \in RawTags} \cup {<<t, x>> : t \in RawTags, x \in {0, 1}}
RawBuffers == RawHeaders \cup RawRecords

(* The three records of an Entity, concatenated in the order p. *)
Perms == {p \in [1..3 -> 1..3] : {p[1], p[2], p[3]} = 1..3}
EntityRecords(e) ==
    <<serialize(<<>>, FStr(e.name)),
      serialize(<<>>, FByte(e.field_b)),
      serialize(<<>>, FBool(e.field_c))>>
PermBuffer(e, p) ==
    LET r == EntityRecords(e) IN r[p[1]] \o r[p[2]] \o r[p[3]]
PermBuffers == {PermBuffer(e, p) : e \in SmallEntities, p \in Perms}

(* Two records one after the other, as two calls of serialize on one buf   *)
(* leave them.                                                              *)
PairFields ==
    {FStr(<<97>>), FByte(7), FAction(0), FEntity(MkEntity(<<97>>, 7, TRUE)),
     FSession(MkEntity(<<>>, 0, FALSE))}
PairBuffers ==
    {serialize(serialize(<<>>, f), g) : f \in PairFields, g \in PairFields}

StoredBuffers == RawBuffers \cup PermBuffers \cup PairBuffers

---------------------------------------------------------------------------------------------------------------------------------------------------
(* The state machine: a value is encoded, or bytes are found in storage; a  *)
(* reader is opened over the bytes, or over a prefix of them when the store *)
(* was cut short; the caller makes calls on the reader until one fails (the *)
(* callers propagate the first error with `?`) or panics.                   *)

(* at: the bytes the reader had consumed when the call was made. *)
NoCall ==
    [op |-> "none", T |-> "None", at |-> 0, res |-> Err("none"),
     field |-> NoField, inner |-> NoInner, n |-> 0]

Init ==
    /\ \/ value \in Values /\ buf = <<>> /\ form = "none" /\ phase = "init"
       \/ value = NoField /\ buf \in StoredBuffers /\ form = "stored"
          /\ phase = "encoded"
    /\ cut = 0
    /\ buffer = <<>>
    /\ last = NoCall

(* serialize(&mut buf, value) *)
Serialize ==
    /\ phase = "init"
    /\ buf' = serialize(buf, value)
    /\ form' = "record"
    /\ phase' = "encoded"
    /\ UNCHANGED <<value, cut, buffer, last>>

(* buf = value.serialize(), of a composite *)
CompositeSerialize ==
    /\ phase = "init"
    /\ value.tag \in {"Action", "Entity", "Session"}
    /\ buf' = CASE value.tag = "Action" -> ActionSerialize(value.kind)
                [] value.tag = "Entity" -> EntitySerialize(value.entity)
                [] value.tag = "Session" -> SessionSerialize(value.entity)
    /\ form' = "payload"
    /\ phase' = "encoded"
    /\ UNCHANGED <<value, cut, buffer, last>>

(* The prefixes of buf a reader is opened over: all of it, and every shorter *)
(* prefix of a short encoding.                                               *)
Offsets ==
    IF form # "stored" /\ Len(buf) <= MaxTruncLen
    THEN 0..Len(buf) ELSE {Len(buf)}

(* FieldReader::new(&buf[..k]) *)
NewReader(k) ==
    /\ phase = "encoded"
    /\ cut' = k
    /\ buffer' = Take(buf, k)
    /\ phase' = "reading"
    /\ UNCHANGED <<value, buf, form, last>>

AfterCall(r) ==
    CASE r.kind = "Ok" -> "reading"
      [] r.kind = "Err" -> "failed"
      [] r.kind = "Panic" -> "panicked"

(* reader.read_field::<T>() *)
ReadFieldCall(T, ub) ==
    /\ phase = "reading"
    /\ LET r == read_field(buffer, T, ub)
       IN  /\ buffer' = r.buffer
           /\ last' = [op |-> "read_field", T |-> T, at |-> cut - Len(buffer),
                       res |-> r.res, field |-> r.field, inner |-> r.inner,
                       n |-> r.n]
           /\ phase' = AfterCall(r.res)
    /\ UNCHANGED <<value, buf, form, cut>>

DeserializeOf(T, b, ub) ==
    CASE T = "Action" -> ActionDeserialize(b, ub)
      [] T = "Entity" -> EntityDeserialize(b, ub)
      [] T = "Session" -> SessionDeserialize(b, ub)

(* T::deserialize(&mut reader), of a composite T *)
DeserializeCall(T, ub) ==
    /\ phase = "reading"
    /\ LET r == DeserializeOf(T, buffer, ub)
       IN  /\ buffer' = r.buffer
           /\ last' = [op |-> "deserialize", T |-> T, at |-> cut - Len(buffer),
                       res |-> r.res, field |-> NoField, inner |-> NoInner,
                       n |-> 0]
           /\ phase' = AfterCall(r.res)
    /\ UNCHANGED <<value, buf, form, cut>>

Next ==
    \/ Serialize
    \/ CompositeSerialize
    \/ \E k \in Offsets : NewReader(k)
    \/ \E T \in RequestTypes, ub \in UBOutcomes : ReadFieldCall(T, ub)
    \/ \E T \in {"Action", "Entity", "Session"}, ub \in UBOutcomes :
            DeserializeCall(T, ub)

Spec == Init /\ [][Next]_vars

----------------------------------------------------------------------------
(* What the properties speak of. *)

(* A call has been made on the reader. *)
Called == phase \in {"reading", "failed", "panicked"} /\ last.op # "none"

(* The reader's buffer when the last call was made. *)
Before == SubSeq(buf, last.at + 1, cut)

(* The last call was made on a fresh reader over all of buf. *)
FirstCallOnAll == Called /\ last.at = 0 /\ cut = Len(buf)

(* The last call is the one that decodes what the encoder wrote: read_field *)
(* as the value's type over its record, T::deserialize over T::serialize(). *)
DecodesValue ==
    /\ value.tag # "None"
    /\ Called
    /\ last.at = 0
    /\ \/ form = "record" /\ last.op = "read_field" /\ last.T = value.tag
       \/ form = "payload" /\ last.op = "deserialize" /\ last.T = value.tag

(* The payload of an Entity: the records of name, field_b and field_c. *)
EntityPayloadLen(e) == (3 + Len(e.name)) + (3 + 1) + (3 + 1)

(* Every record written for the value has a payload of at most 65535 bytes: *)
(* the Wire Record invariant `length <= 65535`.                             *)
FitsU16 ==
    CASE value.tag = "Str" -> Len(value.str) <= U16Max
      [] value.tag = "Entity" ->
            /\ Len(value.entity.name) <= U16Max
            /\ form = "record" => EntityPayloadLen(value.entity) <= U16Max
      [] value.tag = "Session" ->
            /\ EntityPayloadLen(value.entity) <= U16Max
            /\ form = "record" => 3 + EntityPayloadLen(value.entity) <= U16Max
      [] OTHER -> TRUE

(* Before starts with a whole record: a known tag, a length, and at least   *)
(* that many bytes after it.                                                *)
WholeRecord(b) ==
    /\ Len(b) >= 3
    /\ b[1] \in 1..8
    /\ Len(b) >= 3 + U16FromBeBytes(b[2], b[3])

----------------------------------------------------------------------------
(* C1 Round trip: decoding what the encoder wrote for a value whose records *)
(* fit the 16-bit length returns Ok with the same value (for an Entity: the *)
(* same name, byte and boolean) and leaves nothing unread.                  *)
C1_RoundTrip ==
    (DecodesValue /\ cut = Len(buf) /\ FitsU16)
        => last.res = Ok(value) /\ buffer = <<>>

(* The entity ("alice", 7, true) came back from Entity::deserialize over its *)
(* Entity::serialize.                                                        *)
C1_Witness ==
    /\ DecodesValue /\ cut = Len(buf)
    /\ form = "payload"
    /\ value = FEntity(Alice)
    /\ buf = <<1, 0, 5, 97, 108, 105, 99, 101, 3, 0, 1, 7, 4, 0, 1, 1>>
    /\ last.op = "deserialize"
    /\ last.res = Ok(FEntity(Alice))

----------------------------------------------------------------------------
(* C2 Truncation safety, as claimed: decoding a proper prefix of a valid    *)
(* encoding returns an error value; the call neither panics nor succeeds.   *)
C2_TruncationReturnsError ==
    (DecodesValue /\ FitsU16 /\ cut < Len(buf)) => last.res.kind = "Err"

(* C3 Length boundary, as claimed: the encoder leaves no record for a       *)
(* string of 65536 bytes or more, and the length it writes is the number of *)
(* payload bytes it appends.                                                *)
C3_LengthIsPayloadLength ==
    (form = "record" /\ value.tag = "Str")
        => /\ Len(value.str) <= U16Max
           /\ U16FromBeBytes(buf[2], buf[3]) = Len(buf) - 3

(* C4 Unknown discriminant, as claimed: read_field on a whole record with   *)
(* tag 6 whose payload byte is no declared discriminant fails with          *)
(* InvalidFieldType.                                                        *)
C4_UnknownDiscriminantRejected ==
    (/\ Called /\ last.op = "read_field"
     /\ WholeRecord(Before)
     /\ Before[1] = 6
     /\ last.n >= 1
     /\ Before[4] \notin ActionKindDiscriminants)
        => last.res = Err("InvalidFieldType")

(* C5 Tag mismatch, as claimed, on the calls that return and on the types   *)
(* and tags whose code is in serde.rs and main.rs: read_field::<T> on a     *)
(* whole record whose tag is not the one T expects fails with               *)
(* InvalidFieldType.                                                        *)
C5_MismatchAlwaysInvalidFieldType ==
    (/\ Called /\ last.op = "read_field"
     /\ last.T \in SerdeRequestTypes
     /\ WholeRecord(Before)
     /\ Before[1] \notin {5, 8}
     /\ FieldTypeOfByte(Before[1]) # last.T
     /\ last.res.kind # "Panic")
        => last.res = Err("InvalidFieldType")

(* C5 Tag mismatch, amended: read_field::<T> on the record the encoder      *)
(* wrote for a value of another type (its records within the 16-bit length) *)
(* fails with InvalidFieldType; and whenever read_field has built a Field   *)
(* from a payload, the conversion returns that Field's value if its variant *)
(* is the one T accepts and InvalidFieldType for every other variant.       *)
C5_MismatchOnWellFormedRecord ==
    /\ (/\ FirstCallOnAll /\ last.op = "read_field"
        /\ form = "record" /\ FitsU16
        /\ last.T # value.tag)
           => last.res = Err("InvalidFieldType")
    /\ (Called /\ last.op = "read_field" /\ last.field.tag # "None")
           => last.res = IF last.field.tag = last.T THEN Ok(last.field)
                         ELSE Err("InvalidFieldType")

(* The record of the byte 7 was read as a String and refused. *)
C5_Witness ==
    /\ FirstCallOnAll /\ last.op = "read_field"
    /\ form = "record"
    /\ value = FByte(7)
    /\ last.T = "Str"
    /\ last.field = FByte(7)
    /\ last.res = Err("InvalidFieldType")

(* C6 Order sensitivity: Entity::deserialize over the three records of an   *)
(* Entity in an order other than name, field_b, field_c fails with          *)
(* InvalidFieldType.                                                        *)
C6_OutOfOrderRejected ==
    (/\ FirstCallOnAll /\ last.op = "deserialize" /\ last.T = "Entity"
     /\ form = "stored"
     /\ \E e \in SmallEntities, p \in Perms :
            p # <<1, 2, 3>> /\ buf = PermBuffer(e, p))
        => last.res = Err("InvalidFieldType")

(* The records of ("a", 7, true) stored as field_b, name, field_c. *)
C6_Witness ==
    /\ FirstCallOnAll /\ last.op = "deserialize" /\ last.T = "Entity"
    /\ form = "stored"
    /\ buf = PermBuffer(MkEntity(<<97>>, 7, TRUE), <<2, 1, 3>>)
    /\ last.res = Err("InvalidFieldType")

(* C7 Wire format of a Session: a record of tag 8 whose length is the       *)
(* number of bytes after it, holding one record of tag 7 whose payload is   *)
(* the tag-1 record of the name, the tag-3 record of field_b and the tag-4  *)
(* record of field_c as one byte 0 or 1, for a Session whose records fit    *)
(* the 16-bit length.                                                       *)
C7_SessionWireFormat ==
    (form = "record" /\ value.tag = "Session" /\ FitsU16)
        => LET e == value.entity
               nl == Len(e.name)
           IN  /\ Len(buf) = 6 + 3 + nl + 4 + 4
               /\ buf[1] = 8
               /\ U16FromBeBytes(buf[2], buf[3]) = Len(buf) - 3
               /\ buf[4] = 7
               /\ U16FromBeBytes(buf[5], buf[6]) = Len(buf) - 6
               /\ buf[7] = 1
               /\ U16FromBeBytes(buf[8], buf[9]) = nl
               /\ SubSeq(buf, 10, 9 + nl) = e.name
               /\ SubSeq(buf, 10 + nl, 13 + nl) = <<3, 0, 1, e.field_b>>
               /\ SubSeq(buf, 14 + nl, 16 + nl) = <<4, 0, 1>>
               /\ buf[17 + nl] \in {0, 1}
               /\ buf[17 + nl] = 1 <=> e.field_c

(* The Session of the entity ("alice", 7, true), byte for byte. *)
C7_Witness ==
    /\ form = "record"
    /\ value = FSession(Alice)
    /\ buf = <<8, 0, 19, 7, 0, 16,
               1, 0, 5, 97, 108, 105, 99, 101,
               3, 0, 1, 7,
               4, 0, 1, 1>>

(* C8 Payload size per tag, as claimed: read_field on a whole record of tag *)
(* U128 with a length other than 16, or of tag Byte or Bool with length 0,  *)
(* returns an error.                                                        *)
C8_BadPayloadSizeRejected ==
    (/\ Called /\ last.op = "read_field"
     /\ WholeRecord(Before)
     /\ \/ Before[1] = 2 /\ last.n # 16
        \/ Before[1] \in {3, 4} /\ last.n = 0)
        => last.res.kind = "Err"

(* C9 Header validation: read_field on an empty buffer fails with           *)
(* MissingFieldType, on a known tag followed by fewer than 2 bytes with     *)
(* MissingFieldLen, and on a first byte outside 1..8 with InvalidFieldType, *)
(* whatever the requested type and the bytes after it.                      *)
C9_HeaderValidation ==
    (Called /\ last.op = "read_field")
        => LET b == Before
           IN  /\ b = <<>> => last.res = Err("MissingFieldType")
               /\ (Len(b) \in 1..2 /\ b[1] \in 1..8)
                      => last.res = Err("MissingFieldLen")
               /\ (Len(b) >= 1 /\ b[1] \notin 1..8)
                      => last.res = Err("InvalidFieldType")

(* The tag 9 before a length and a payload byte, read as a String. *)
C9_Witness ==
    /\ Called /\ last.op = "read_field"
    /\ last.T = "Str"
    /\ Before = <<9, 0, 1, 97>>
    /\ last.res = Err("InvalidFieldType")

(* The parts of C10 that speak of the cursor alone: the reader's buffer is  *)
(* a suffix of the slice it was opened over; a read_field that returns Ok   *)
(* has consumed 3 + length bytes; a nested reader was given the payload     *)
(* slice.                                                                   *)
CursorIsLinear ==
    Called =>
        /\ Len(buffer) <= cut - last.at
        /\ buffer = SubSeq(buf, cut - Len(buffer) + 1, cut)
        /\ (last.op = "read_field" /\ last.res.kind = "Ok")
               => Len(buffer) = cut - last.at - (3 + last.n)
        /\ last.inner.opened
               => last.inner.bytes = SubSeq(Before, 4, 3 + last.n)

(* C10 Linear cursor, as claimed: the above, and every call returns: Ok     *)
(* after consuming a whole record of at least 3 bytes, or an error, so that *)
(* the calls over a finite buffer end with an error.                        *)
C10_LinearCursorEndsInError ==
    /\ CursorIsLinear
    /\ Called => last.res.kind \in {"Ok", "Err"}

====
